---- MODULE Spec2Model ----
(***************************************************************************)
(* Model of the merchant wallet ledger of apps/wallets: the rows of the    *)
(* merchant_wallets and merchant_wallet_transactions tables, the           *)
(* WalletService operations that run inside transaction.atomic under a     *)
(* row lock (select_for_update), the MerchantWalletViewSet HTTP handlers,  *)
(* MerchantWallet.save, and the PaymentMethodService operations on the     *)
(* merchant_payment_methods table.                                         *)
(*                                                                         *)
(* Money is counted in the smallest unit of the DecimalField (two decimal  *)
(* places), so amounts and balances are integers.  Each request handler    *)
(* (thread) is a process; a handler's uncommitted writes live in pendT and *)
(* pendW until its outermost atomic block commits (PostgreSQL, read        *)
(* committed).                                                             *)
(***************************************************************************)
EXTENDS Integers, Sequences, FiniteSets, Bags, TLC

\* ---------------------------------------------------------------- bounds
MaxAmount == 1
MaxTxns == 3
MaxMethods == 3
MaxWallets == 3
MaxLen == 7

Merchants == {"m1", "m2"}
Procs == {"p1", "p2"}
NoProc == "none"

\* wallet_id is a fresh UUID: the n-th wallet row ever inserted has id n
WalletIds == 1 .. MaxWallets
\* the wallet ids the callers of the service pass: enough for every merchant's wallet
WalletInputs == 1 .. Cardinality(Merchants)
Amounts == (0 - MaxAmount) .. MaxAmount
BalanceInputs == (0 - 1) .. MaxAmount

\* ------------------------------------------------------- program constants
STATUS_CHOICES == {"active", "suspended", "frozen", "closed"}

TRANSACTION_TYPE_CHOICES ==
    {"deposit", "withdrawal", "refund", "commission", "penalty",
     "transfer_in", "transfer_out", "adjustment"}

\* the transaction types callers pass in
InputTypes == {"deposit", "withdrawal"}

VARIABLES
    wallets,    \* committed merchant_wallets rows: wallet_id -> row
    txns,       \* committed merchant_wallet_transactions rows (a bag: row -> copies)
    lock,       \* row lock of each wallet row: holder or NoProc
    pc,         \* position of each handler
    call,       \* the call a handler is executing
    loc,        \* the wallet object a handler has read (local variable wallet)
    pendT,      \* bag of the transaction rows a handler inserted, not yet committed
    pendW,      \* wallet rows a handler saved, not yet committed
    last,       \* outcome of the call the last step finished (NoLast: none)
    writes,     \* number of wallet rows saved directly (update view, MerchantWallet.save)
    applied,    \* history: per wallet, sum of amounts of successful process_transaction calls
    methods,    \* committed merchant_payment_methods rows, in the order of their creation
    pendM,      \* ids of the payment methods whose is_default a handler cleared, not yet committed
    pm,         \* the payment method object a handler holds (local variable payment_method)
    created     \* number of wallet rows inserted so far

vars == <<wallets, txns, lock, pc, call, loc, pendT, pendW, last, writes, applied,
          methods, pendM, pm, created>>

NoWallet == [merchant |-> "none", balance |-> 0, status |-> "none"]

NoTxn == [wallet |-> 0, amount |-> 0, type |-> "none", status |-> "none", desc |-> ""]

NoCall == [op |-> "none", via |-> "none", merchant |-> "none", wallet |-> 0, amount |-> 0,
           type |-> "none", from |-> 0, to |-> 0, phase |-> 0, first |-> NoTxn]

NoLast == [proc |-> NoProc, op |-> "none", via |-> "none", outcome |-> "none", txns |-> <<>>,
           merchant |-> "none", wallet |-> 0, to |-> 0, amount |-> 0, phase |-> 0,
           method |-> 0, unset |-> {}]

\* id 0: an object that has no row yet
NoMethod == [id |-> 0, wallet |-> 0, status |-> "none", is_default |-> FALSE]

\* payment_method_id is a fresh UUID: the n-th row ever inserted has id n, and
\* the place of a row that was deleted stays empty
DeletedMethod == [wallet |-> 0, status |-> "deleted", is_default |-> FALSE]

\* ------------------------------------------------------------- helpers
\* transaction_id is a random UUID that no code reads: the rows of the log are
\* kept as a bag of their other columns
RECURSIVE SumAmounts(_, _)
SumAmounts(B, S) ==
    IF S = {} THEN 0
    ELSE LET r == CHOOSE x \in S : TRUE
         IN r.amount * CopiesIn(r, B) + SumAmounts(B, S \ {r})

RECURSIVE Copies(_, _)
Copies(B, S) ==
    IF S = {} THEN 0
    ELSE LET r == CHOOSE x \in S : TRUE
         IN CopiesIn(r, B) + Copies(B, S \ {r})

Exists(w) == w \in DOMAIN wallets

\* the distinct rows of bag B that belong to wallet w
RowsOf(B, w) == {r \in BagToSet(B) : r.wallet = w}

RECURSIVE PendingRows(_)
PendingRows(S) ==
    IF S = {} THEN 0
    ELSE LET p == CHOOSE x \in S : TRUE
         IN BagCardinality(pendT[p]) + PendingRows(S \ {p})

\* the bound on the work of a run: a row of the log counts 1, a direct save 2
Room(n) ==
    BagCardinality(txns) + PendingRows(Procs)
      + 2 * (writes + Cardinality({p \in Procs : pc[p] = "put"})) + n <= MaxTxns

\* the rows a handler sees: committed rows overlaid with its own writes
View(p, w) == IF w \in DOMAIN pendW[p] THEN pendW[p][w] ELSE wallets[w]

Put(f, k, v) == [x \in (DOMAIN f) \cup {k} |-> IF x = k THEN v ELSE f[x]]

Init ==
    /\ wallets = << >>
    /\ txns = EmptyBag
    /\ lock = [w \in WalletIds |-> NoProc]
    /\ pc = [p \in Procs |-> "idle"]
    /\ call = [p \in Procs |-> NoCall]
    /\ loc = [p \in Procs |-> NoWallet]
    /\ pendT = [p \in Procs |-> EmptyBag]
    /\ pendW = [p \in Procs |-> << >>]
    /\ last = NoLast
    /\ writes = 0
    /\ applied = [w \in WalletIds |-> 0]
    /\ methods = << >>
    /\ pendM = [p \in Procs |-> {}]
    /\ pm = [p \in Procs |-> NoMethod]
    /\ created = 0

\* ------------------------------------------------ the atomic block's end
ReleaseLocks(p) == [w \in WalletIds |-> IF lock[w] = p THEN NoProc ELSE lock[w]]

Overlay(pw) == [w \in (DOMAIN wallets) \cup (DOMAIN pw) |->
                   IF w \in DOMAIN pw THEN pw[w] ELSE wallets[w]]

\* Commit with wallet.save() lost: the inserted rows persist, the wallet rows do not
Commit_rows_only(p, pw, pt, result) ==
    /\ txns' = txns (+) pt
    /\ lock' = ReleaseLocks(p)
    /\ pendT' = [pendT EXCEPT ![p] = EmptyBag]
    /\ pendW' = [pendW EXCEPT ![p] = << >>]
    /\ loc' = [loc EXCEPT ![p] = NoWallet]
    /\ call' = [call EXCEPT ![p] = NoCall]
    /\ pc' = [pc EXCEPT ![p] = "idle"]
    /\ last' = result
    /\ UNCHANGED wallets
    /\ UNCHANGED <<created, methods, pendM, pm>>

\* transaction.atomic exits normally: the outermost block commits the handler's
\* writes (pw: the wallet rows it saved, pt: the rows it inserted) and the row
\* locks it holds are released.
Commit(p, pw, pt, result) ==
    /\ wallets' = Overlay(pw)
    /\ txns' = txns (+) pt
    /\ lock' = ReleaseLocks(p)
    /\ pendT' = [pendT EXCEPT ![p] = EmptyBag]
    /\ pendW' = [pendW EXCEPT ![p] = << >>]
    /\ loc' = [loc EXCEPT ![p] = NoWallet]
    /\ call' = [call EXCEPT ![p] = NoCall]
    /\ pc' = [pc EXCEPT ![p] = "idle"]
    /\ last' = result
    /\ UNCHANGED <<created, methods, pendM, pm>>

\* Rollback without an enclosing atomic block around transfer_funds: what the
\* inner process_transaction blocks completed stays
Rollback_partial(p, result) ==
    /\ wallets' = Overlay(pendW[p])
    /\ txns' = txns (+) pendT[p]
    /\ lock' = ReleaseLocks(p)
    /\ pendT' = [pendT EXCEPT ![p] = EmptyBag]
    /\ pendW' = [pendW EXCEPT ![p] = << >>]
    /\ loc' = [loc EXCEPT ![p] = NoWallet]
    /\ call' = [call EXCEPT ![p] = NoCall]
    /\ pc' = [pc EXCEPT ![p] = "idle"]
    /\ last' = result
    /\ UNCHANGED <<writes, applied, created, methods, pendM, pm>>

\* an exception leaves transaction.atomic: every write of the block is rolled
\* back, the locks are released and the exception reaches the caller.
Rollback(p, result) ==
    /\ lock' = ReleaseLocks(p)
    /\ pendT' = [pendT EXCEPT ![p] = EmptyBag]
    /\ pendW' = [pendW EXCEPT ![p] = << >>]
    /\ loc' = [loc EXCEPT ![p] = NoWallet]
    /\ call' = [call EXCEPT ![p] = NoCall]
    /\ pc' = [pc EXCEPT ![p] = "idle"]
    /\ last' = result
    /\ UNCHANGED <<wallets, txns, writes, applied, created, methods, pendM, pm>>

Outcome(p, c, kind, ids) ==
    [proc |-> p, op |-> c.op, via |-> c.via, outcome |-> kind, txns |-> ids,
     wallet |-> (IF c.op = "transfer_funds" THEN c.from ELSE c.wallet),
     merchant |-> c.merchant, to |-> c.to, amount |-> c.amount, phase |-> c.phase,
     method |-> 0, unset |-> {}]

\* transfer_funds without @transaction.atomic: the debit's block commits and
\* gives its row lock back
HeldLocks_released(p) == ReleaseLocks(p)

\* an inner atomic block (a savepoint) ends inside transfer_funds' block: the
\* row locks it took stay with the handler until the outer block ends
HeldLocks(p) == lock

\* get() without select_for_update(): nobody waits
CanLock_nowait(p, w) == TRUE

\* a lock on the whole table instead of the row
CanLock_table(p, w) == \A x \in WalletIds : lock[x] \in {NoProc, p}

\* select_for_update(): the caller waits while another handler holds the row
CanLock(p, w) == lock[w] \in {NoProc, p}

\* save() without the balance check
MerchantWallet_save_unchecked(row) == TRUE

\* MerchantWallet.save: refuses a negative balance
MerchantWallet_save(row) == row.balance >= 0

\* create() without transaction_status: the column's default is 'pending'
NewTxn_pending(w, a, t, d) ==
    [wallet |-> w, amount |-> a, type |-> t, status |-> "pending", desc |-> d]

\* MerchantWalletTransaction.objects.create(..., transaction_status='completed')
NewTxn(w, a, t, d) ==
    [wallet |-> w, amount |-> a, type |-> t, status |-> "completed", desc |-> d]

Frame(op, via, w, a, t, f, to, ph, first) ==
    [op |-> op, via |-> via, merchant |-> "none", wallet |-> w, amount |-> a, type |-> t,
     from |-> f, to |-> to, phase |-> ph, first |-> first]

\* transfer_funds lines 112-119: the debit, process_transaction(from, -amount, 'transfer_out')
DebitFrame(f, to, a) ==
    Frame("transfer_funds", "service", f, 0 - a, "transfer_out", f, to, 1, NoTxn)

\* the credit booked on the source wallet
CreditFrame_source(c, t) ==
    [op |-> "transfer_funds", via |-> "service", merchant |-> "none", wallet |-> c.from,
     amount |-> 0 - c.amount, type |-> "transfer_in", from |-> c.from, to |-> c.to,
     phase |-> 2, first |-> t]

\* transfer_funds lines 122-129: the credit, process_transaction(to, amount, 'transfer_in');
\* c is the debit's frame and t the row the debit returned
CreditFrame(c, t) ==
    Frame("transfer_funds", "service", c.to, 0 - c.amount, "transfer_in", c.from, c.to, 2, t)

\* ------------------------------------------------ create_merchant_wallet
WalletOf(m) == {w \in DOMAIN wallets : wallets[w].merchant = m}

\* merchant_id without the unique index (a ForeignKey instead of a OneToOneField)
UniqueMerchant_none(m) == TRUE

\* OneToOneField: the unique index on merchant_id admits a row for merchant m
\* only while m has no wallet
UniqueMerchant(m) == WalletOf(m) = {}

CreateFrame(m) == [NoCall EXCEPT !.op = "create_wallet", !.via = "service", !.merchant = m]

\* update_or_create instead of get_or_create: an existing wallet gets the defaults
create_merchant_wallet_update(p, m) ==
    /\ pc[p] = "idle"
    /\ IF WalletOf(m) # {}
       THEN LET w == CHOOSE x \in WalletOf(m) : TRUE IN
            /\ wallets' = Put(wallets, w, [merchant |-> m, balance |-> 0, status |-> "active"])
            /\ last' = Outcome(p, [CreateFrame(m) EXCEPT !.wallet = w], "ok", <<>>)
            /\ UNCHANGED <<pc, call>>
       ELSE /\ pc' = [pc EXCEPT ![p] = "insert"]
            /\ call' = [call EXCEPT ![p] = CreateFrame(m)]
            /\ last' = NoLast
            /\ UNCHANGED wallets
    /\ UNCHANGED <<txns, lock, loc, pendT, pendW, writes, applied, created, methods, pendM, pm>>

\* get_or_create(merchant=merchant, defaults={balance 0.00, status active}),
\* its first query: get(merchant=merchant) returns the merchant's wallet, or
\* finds none and the call goes on to create one
create_merchant_wallet(p, m) ==
    /\ pc[p] = "idle"
    /\ IF WalletOf(m) # {}
       THEN /\ last' = Outcome(p, [CreateFrame(m) EXCEPT !.wallet = CHOOSE w \in WalletOf(m) : TRUE],
                               "ok", <<>>)
            /\ UNCHANGED <<pc, call>>
       ELSE /\ pc' = [pc EXCEPT ![p] = "insert"]
            /\ call' = [call EXCEPT ![p] = CreateFrame(m)]
            /\ last' = NoLast
    /\ UNCHANGED <<wallets, txns, lock, loc, pendT, pendW, writes, applied, created, methods, pendM, pm>>

\* get_or_create, after get() found nothing: create(merchant, **defaults) in a
\* block of its own; when another handler inserted the merchant's wallet in
\* between, the INSERT raises IntegrityError, get_or_create catches it and
\* returns the row get() now finds
get_or_create_create(p) ==
    /\ pc[p] = "insert"
    /\ LET c == call[p]
           m == c.merchant
           w == created + 1
       IN
       IF ~UniqueMerchant(m)
       THEN /\ last' = Outcome(p, [c EXCEPT !.wallet = CHOOSE x \in WalletOf(m) : TRUE], "ok", <<>>)
            /\ UNCHANGED <<wallets, created>>
       ELSE /\ created < MaxWallets
            /\ wallets' = Put(wallets, w, [merchant |-> m, balance |-> 0, status |-> "active"])
            /\ created' = w
            /\ last' = Outcome(p, [c EXCEPT !.wallet = w], "created", <<>>)
    /\ pc' = [pc EXCEPT ![p] = "idle"]
    /\ call' = [call EXCEPT ![p] = NoCall]
    /\ UNCHANGED <<txns, lock, loc, pendT, pendW, writes, applied, methods, pendM, pm>>

\* MerchantWallet.objects.create(merchant=merchant, balance=b): save() checks
\* the balance, then the INSERT meets the unique index on merchant_id
MerchantWallet_create(p, m, b) ==
    /\ pc[p] = "idle"
    /\ Room(2)
    /\ LET c == [NoCall EXCEPT !.op = "create", !.via = "orm", !.merchant = m, !.amount = b]
           w == created + 1
           row == [merchant |-> m, balance |-> b, status |-> "active"]
       IN
       IF ~MerchantWallet_save(row)
       THEN Rollback(p, Outcome(p, c, "ValueError", <<>>))
       ELSE IF ~UniqueMerchant(m)
       THEN Rollback(p, Outcome(p, c, "IntegrityError", <<>>))
       ELSE /\ created < MaxWallets
            /\ wallets' = Put(wallets, w, row)
            /\ created' = w
            /\ writes' = writes + 1
            /\ last' = Outcome(p, [c EXCEPT !.wallet = w], "created", <<>>)
            /\ UNCHANGED <<txns, lock, pc, call, loc, pendT, pendW, applied, methods, pendM, pm>>

\* --------------------------------------------------- process_transaction
\* a lookup that answers a missing wallet with an empty result instead of an error
LockAndGet_quiet(p, c) ==
    IF ~Exists(c.wallet)
    THEN Rollback(p, Outcome(p, c, "ok", <<>>))
    ELSE /\ CanLock(p, c.wallet)
         /\ lock' = [lock EXCEPT ![c.wallet] = p]
         /\ loc' = [loc EXCEPT ![p] = View(p, c.wallet)]
         /\ call' = [call EXCEPT ![p] = c]
         /\ pc' = [pc EXCEPT ![p] = "check"]
         /\ last' = NoLast
         /\ UNCHANGED <<wallets, txns, pendT, pendW, writes, applied, created, methods, pendM, pm>>

\* MerchantWallet.objects.select_for_update().get(wallet_id=wallet_id):
\* locks the row and reads it, or raises DoesNotExist.
LockAndGet(p, c) ==
    IF ~Exists(c.wallet)
    THEN Rollback(p, Outcome(p, c, "NotFound", <<>>))
    ELSE /\ CanLock(p, c.wallet)
         /\ lock' = [lock EXCEPT ![c.wallet] = p]
         /\ loc' = [loc EXCEPT ![p] = View(p, c.wallet)]
         /\ call' = [call EXCEPT ![p] = c]
         /\ pc' = [pc EXCEPT ![p] = "check"]
         /\ last' = NoLast
         /\ UNCHANGED <<wallets, txns, pendT, pendW, writes, applied, created, methods, pendM, pm>>

\* a call of WalletService.process_transaction, up to line 41
process_transaction_begin(p, w, a, t) ==
    /\ pc[p] = "idle"
    /\ Room(1)
    /\ LockAndGet(p, Frame("process_transaction", "service", w, a, t, 0, 0, 0, NoTxn))

\* the balance check rejecting a resulting balance of exactly 0
Validate_strict(row, a) ==
    IF row.status # "active" THEN "InvalidState"
    ELSE IF row.balance + a <= 0 /\ a < 0 THEN "InsufficientFunds"
    ELSE "ok"

\* the two validations in the other order
Validate_balance_first(row, a) ==
    IF row.balance + a < 0 THEN "InsufficientFunds"
    ELSE IF row.status # "active" THEN "InvalidState"
    ELSE "ok"

\* lines 44-55: the two validations, in the order of the code
Validate(row, a) ==
    IF row.status # "active" THEN "InvalidState"
    ELSE IF row.balance + a < 0 THEN "InsufficientFunds"
    ELSE "ok"

IsPt(c) == c.op \in {"process_transaction", "transfer_funds"}

PtDesc(c) ==
    IF c.op = "transfer_funds"
    THEN (IF c.phase = 1 THEN "Transfer to wallet" ELSE "Transfer from wallet")
    ELSE ""

\* lines 44-73: validate, insert the transaction row, write the new balance
\* (wallet.save()) and return.  Returning leaves the atomic block: it commits
\* unless transfer_funds encloses it, and then the debit stays uncommitted
\* while the credit is processed.
process_transaction_body(p) ==
    /\ pc[p] = "check"
    /\ IsPt(call[p])
    /\ LET c == call[p]
           v == Validate(loc[p], c.amount)
           t == NewTxn(c.wallet, c.amount, c.type, PtDesc(c))
           row == [loc[p] EXCEPT !.balance = loc[p].balance + c.amount]
           pw == Put(pendW[p], c.wallet, row)
           pt == pendT[p] (+) SetToBag({t})
       IN
       IF v # "ok"
       THEN Rollback(p, Outcome(p, c, v, <<>>))
       ELSE IF ~MerchantWallet_save(row)
       THEN Rollback(p, Outcome(p, c, "ValueError", <<>>))
       ELSE IF c.op = "process_transaction"
       THEN /\ Commit(p, pw, pt, Outcome(p, c, "ok", <<t>>))
            /\ applied' = [applied EXCEPT ![c.wallet] = @ + c.amount]
            /\ UNCHANGED writes
       ELSE IF c.phase = 1
       THEN /\ pendW' = [pendW EXCEPT ![p] = pw]
            /\ pendT' = [pendT EXCEPT ![p] = pt]
            /\ call' = [call EXCEPT ![p] = CreditFrame(c, t)]
            /\ pc' = [pc EXCEPT ![p] = "credit"]
            /\ loc' = [loc EXCEPT ![p] = NoWallet]
            /\ last' = NoLast
            /\ lock' = HeldLocks(p)
            /\ UNCHANGED <<wallets, txns, writes, applied, created, methods, pendM, pm>>
       ELSE /\ Commit(p, pw, pt, Outcome(p, c, "ok", <<c.first, t>>))
            /\ applied' = [applied EXCEPT ![c.from] = @ - c.amount, ![c.to] = @ + c.amount]
            /\ UNCHANGED writes

\* ------------------------------------ get_wallet_balance / get_merchant_wallet
\* a call that only reads returns or raises: no row, lock or handler changes
Return(p, result) ==
    /\ last' = result
    /\ UNCHANGED <<wallets, txns, lock, pc, call, loc, pendT, pendW, writes, applied,
                   methods, pendM, pm, created>>

\* get(wallet_id=wallet_id).balance, DoesNotExist turned into "Wallet not found"
get_wallet_balance(p, w) ==
    /\ pc[p] = "idle"
    /\ LET c == [NoCall EXCEPT !.op = "get_wallet_balance", !.via = "service", !.wallet = w] IN
       IF ~Exists(w)
       THEN Return(p, Outcome(p, c, "NotFound", <<>>))
       ELSE Return(p, Outcome(p, [c EXCEPT !.amount = wallets[w].balance], "ok", <<>>))

\* get(merchant_id=merchant_id), DoesNotExist turned into "Wallet not found for merchant"
get_merchant_wallet(p, m) ==
    /\ pc[p] = "idle"
    /\ LET c == [NoCall EXCEPT !.op = "get_merchant_wallet", !.via = "service", !.merchant = m] IN
       IF WalletOf(m) = {}
       THEN Return(p, Outcome(p, c, "NotFound", <<>>))
       ELSE Return(p, Outcome(p, [c EXCEPT !.wallet = CHOOSE w \in WalletOf(m) : TRUE], "ok", <<>>))

\* -------------------------------------------------------- transfer_funds
\* only negative amounts are refused
InvalidTransfer_negative_only(f, to, a) == a < 0

\* lines 105-109: the argument checks of transfer_funds
InvalidTransfer(f, to, a) == a <= 0 \/ f = to

\* lines 105-119: the two argument checks, then the debit's process_transaction
transfer_funds_begin(p, f, to, a) ==
    /\ pc[p] = "idle"
    /\ Room(2)
    /\ LET c == DebitFrame(f, to, a) IN
       IF InvalidTransfer(f, to, a)
       THEN Rollback(p, Outcome(p, c, "InvalidArgument", <<>>))
       ELSE LockAndGet(p, c)

\* lines 122/41: the credit's process_transaction locks the destination row
transfer_funds_credit(p) ==
    /\ pc[p] = "credit"
    /\ LockAndGet(p, call[p])

\* handlers p and q each hold the row lock the other's credit waits for
Deadlock(p, q) ==
    /\ p # q
    /\ pc[p] = "credit"
    /\ pc[q] = "credit"
    /\ lock[call[p].wallet] = q
    /\ lock[call[q].wallet] = p

\* PostgreSQL detects the cycle and aborts one of the two transactions: the
\* select_for_update() of its credit raises, transfer_funds' block rolls back
\* and the error reaches the caller (nothing in transfer_funds catches it)
DeadlockAbort(p) ==
    /\ \E q \in Procs : Deadlock(p, q)
    /\ Rollback(p, Outcome(p, call[p], "DeadlockDetected", <<>>))

\* --------------------------------------------- suspend / reactivate wallet
suspend_wallet_begin(p, w) ==
    /\ pc[p] = "idle"
    /\ Room(1)
    /\ LockAndGet(p, Frame("suspend_wallet", "service", w, 0, "adjustment", 0, 0, 0, NoTxn))

reactivate_wallet_begin(p, w) ==
    /\ pc[p] = "idle"
    /\ Room(1)
    /\ LockAndGet(p, Frame("reactivate_wallet", "service", w, 0, "adjustment", 0, 0, 0, NoTxn))

\* suspend_wallet without its status check
StatusCheck_none(op, row) ==
    IF op = "suspend_wallet"
    THEN TRUE
    ELSE row.status # "active" /\ row.status \in {"suspended", "frozen"}

\* reactivate_wallet with its first check only
StatusCheck_not_active(op, row) ==
    IF op = "suspend_wallet"
    THEN row.status # "suspended"
    ELSE row.status # "active"

\* the status checks of suspend_wallet (157) and reactivate_wallet (181-185)
StatusCheck(op, row) ==
    IF op = "suspend_wallet"
    THEN row.status # "suspended"
    ELSE row.status # "active" /\ row.status \in {"suspended", "frozen"}

AdminDesc(op) == IF op = "suspend_wallet" THEN "Wallet suspended" ELSE "Wallet reactivated"

AdminStatus(op) == IF op = "suspend_wallet" THEN "suspended" ELSE "active"

IsAdmin(c) == c.op \in {"suspend_wallet", "reactivate_wallet"}

\* check the status, log the change as a zero-amount adjustment, then
\* wallet.status = ...; wallet.save(); return wallet (the block commits)
status_change_body(p) ==
    /\ pc[p] = "check"
    /\ IsAdmin(call[p])
    /\ LET c == call[p]
           t == NewTxn(c.wallet, 0, "adjustment", AdminDesc(c.op))
           row == [loc[p] EXCEPT !.status = AdminStatus(c.op)]
       IN
       IF ~StatusCheck(c.op, loc[p])
       THEN Rollback(p, Outcome(p, c, "InvalidState", <<>>))
       ELSE IF ~MerchantWallet_save(row)
       THEN Rollback(p, Outcome(p, c, "ValueError", <<>>))
       ELSE /\ Commit(p, Put(pendW[p], c.wallet, row), pendT[p] (+) SetToBag({t}), Outcome(p, c, "ok", <<t>>))
            /\ UNCHANGED <<writes, applied>>

\* ------------------------------------------------ MerchantWalletViewSet
\* WalletTransactionCreateSerializer.validate_amount
validate_amount(a, t) ==
    IF t \in {"deposit", "refund", "transfer_in", "commission"} THEN a > 0
    ELSE IF t \in {"withdrawal", "penalty", "transfer_out"} THEN a < 0
    ELSE TRUE

\* the sign of the amount is not validated
is_valid_any_amount(a, t) == t \in TRANSACTION_TYPE_CHOICES

\* WalletTransactionCreateSerializer.is_valid: transaction_type is one of the
\* choices of its ChoiceField, and validate_amount accepts the amount
is_valid(a, t) == t \in TRANSACTION_TYPE_CHOICES /\ validate_amount(a, t)

HttpOutcome(p, op, kind, w) ==
    Outcome(p, [NoCall EXCEPT !.op = op, !.via = "http", !.wallet = w], kind, <<>>)

\* POST wallets/{pk}/process_transaction/: get_object, serializer.is_valid,
\* then WalletService.process_transaction; every exception becomes a 400
view_process_transaction(p, w, a, t) ==
    /\ pc[p] = "idle"
    /\ Room(1)
    /\ IF ~Exists(w)
       THEN Rollback(p, HttpOutcome(p, "process_transaction", "Http404", w))
       ELSE IF ~is_valid(a, t)
       THEN Rollback(p, HttpOutcome(p, "process_transaction", "ValidationError", w))
       ELSE LockAndGet(p, Frame("process_transaction", "http", w, a, t, 0, 0, 0, NoTxn))

\* PUT/PATCH wallets/{pk}/ (ModelViewSet.update): get_object reads the row
\* without locking it, MerchantWalletSerializer validates the writable fields
\* balance (MinValueValidator 0.00) and status (STATUS_CHOICES)
view_update_begin(p, w, fields, b, s) ==
    /\ pc[p] = "idle"
    /\ Room(2)
    /\ IF ~Exists(w)
       THEN Rollback(p, HttpOutcome(p, "update", "Http404", w))
       ELSE IF "balance" \in fields /\ b < 0
       THEN Rollback(p, HttpOutcome(p, "update", "ValidationError", w))
       ELSE /\ loc' = [loc EXCEPT ![p] =
                         [merchant |-> wallets[w].merchant,
                          balance |-> IF "balance" \in fields THEN b ELSE wallets[w].balance,
                          status |-> IF "status" \in fields THEN s ELSE wallets[w].status]]
            /\ call' = [call EXCEPT ![p] = [NoCall EXCEPT !.op = "update", !.via = "http", !.wallet = w]]
            /\ pc' = [pc EXCEPT ![p] = "put"]
            /\ last' = NoLast
            /\ UNCHANGED <<wallets, txns, lock, pendT, pendW, writes, applied, created, methods, pendM, pm>>

\* serializer.save(): instance.save() writes every column of the row; the
\* UPDATE waits while another handler holds the row lock, and when the row is
\* gone save() inserts the object, which the unique index on merchant_id may refuse
view_update_save(p) ==
    /\ pc[p] = "put"
    /\ CanLock(p, call[p].wallet)
    /\ IF ~MerchantWallet_save(loc[p])
       THEN Rollback(p, Outcome(p, call[p], "ValueError", <<>>))
       ELSE IF ~Exists(call[p].wallet) /\ ~UniqueMerchant(loc[p].merchant)
       THEN Rollback(p, Outcome(p, call[p], "IntegrityError", <<>>))
       ELSE /\ Commit(p, Put(<< >>, call[p].wallet, loc[p]), EmptyBag, Outcome(p, call[p], "ok", <<>>))
            /\ writes' = writes + 1
            /\ UNCHANGED applied

\* --------------------------------------------------- MerchantWallet.save
\* a caller outside the service assigns fields of a wallet object and saves it
\* (tests.py: wallet.balance = Decimal('-100.00'); wallet.save())
wallet_save(p, w, b, s) ==
    /\ pc[p] = "idle"
    /\ Room(2)
    /\ Exists(w)
    /\ CanLock(p, w)
    /\ LET row == [wallets[w] EXCEPT !.balance = b, !.status = s]
           c == [NoCall EXCEPT !.op = "save", !.via = "orm", !.wallet = w, !.amount = b]
       IN
       IF ~MerchantWallet_save(row)
       THEN Rollback(p, Outcome(p, c, "ValueError", <<>>))
       ELSE /\ Commit(p, Put(<< >>, w, row), EmptyBag, Outcome(p, c, "ok", <<>>))
            /\ writes' = writes + 1
            /\ UNCHANGED applied

\* Collector.delete: the rows that reference wallet w go with it (on_delete=CASCADE)
CascadeTxns(w) == [r \in {x \in BagToSet(txns) : x.wallet # w} |-> CopiesIn(r, txns)]

CascadeMethods(w) ==
    [k \in DOMAIN methods |-> IF methods[k].wallet = w THEN DeletedMethod ELSE methods[k]]

\* DELETE wallets/{pk}/ (ModelViewSet.destroy): get_object, then
\* instance.delete() removes the wallet row and, by cascade, its transactions
\* and payment methods; the DELETE waits while another handler holds the row lock
view_destroy(p, w) ==
    /\ pc[p] = "idle"
    /\ Room(2)
    /\ IF ~Exists(w)
       THEN Rollback(p, HttpOutcome(p, "destroy", "Http404", w))
       ELSE /\ CanLock(p, w)
            /\ wallets' = [x \in (DOMAIN wallets) \ {w} |-> wallets[x]]
            /\ txns' = CascadeTxns(w)
            /\ methods' = CascadeMethods(w)
            /\ writes' = writes + 1
            /\ last' = HttpOutcome(p, "destroy", "ok", w)
            /\ UNCHANGED <<lock, pc, call, loc, pendT, pendW, applied, created, pendM, pm>>

FieldSets == {{"balance"}, {"status"}, {"balance", "status"}}

HttpTypes == InputTypes \cup {"adjustment"}

\* ------------------------------------------------ authenticated requests
Admins == {"a1"}

\* the bearer tokens a client presents, by their claims user_id and
\* user_type: one for each merchant and admin, and one that names no row
Tokens ==
    [user_id : Merchants, user_type : {"merchant"}]
        \cup [user_id : Admins, user_type : {"admin"}]
        \cup [user_id : {"m1"}, user_type : {"admin"}]

\* get_user returns None
None == [none |-> TRUE]

\* a row of the Admin table as an object: the fields of the record are its attributes
AdminObject(id) == [id |-> id, username |-> id, email |-> id, is_superuser |-> FALSE]

\* a row of the Merchant table as an object (merchants/models.py lines 46-82:
\* merchant_name, owner_name, ..., merchant_id; the reverse accessor of
\* MerchantWallet.merchant is named wallet)
MerchantObject(id) ==
    [id |-> id, username |-> id, email |-> id, merchant_name |-> id, owner_name |-> id,
     merchant_id |-> id, wallet |-> id]

\* CustomJWTAuthentication.get_user: the row of the table that user_type
\* names, None when there is no such row
get_user(token) ==
    IF token.user_type = "admin"
    THEN (IF token.user_id \in Admins THEN AdminObject(token.user_id) ELSE None)
    ELSE IF token.user_type = "merchant"
    THEN (IF token.user_id \in Merchants THEN MerchantObject(token.user_id) ELSE None)
    ELSE None

hasattr(obj, name) == name \in DOMAIN obj

\* permission_classes = [IsAuthenticated]
IsAuthenticated(user) == user # None

\* MerchantWalletViewSet.get_queryset: the wallet rows the caller's requests work on
get_queryset(user) ==
    IF hasattr(user, "merchant")
    THEN {w \in DOMAIN wallets : wallets[w].merchant = user.merchant}
    ELSE DOMAIN wallets

\* MerchantPaymentMethodViewSet.get_queryset: filter(wallet__merchant=user.merchant)
get_queryset_methods(user) ==
    IF hasattr(user, "merchant")
    THEN {k \in DOMAIN methods : /\ methods[k].wallet \in DOMAIN wallets
                                  /\ wallets[methods[k].wallet].merchant = user.merchant}
    ELSE {k \in DOMAIN methods : methods[k] # DeletedMethod}

\* the request of a caller: the outcome records the id the token names
RequestCall(op, token, w) ==
    [NoCall EXCEPT !.op = op, !.via = "http", !.wallet = w, !.merchant = token.user_id]

\* GET wallets/{w}/ (ModelViewSet.retrieve): authentication, then get_object
\* over get_queryset
request_retrieve(p, token, w) ==
    /\ pc[p] = "idle"
    /\ LET user == get_user(token)
           c == RequestCall("retrieve", token, w)
       IN IF ~IsAuthenticated(user)
          THEN Return(p, Outcome(p, c, "NotAuthenticated", <<>>))
          ELSE IF w \notin get_queryset(user)
          THEN Return(p, Outcome(p, c, "Http404", <<>>))
          ELSE Return(p, Outcome(p, [c EXCEPT !.amount = wallets[w].balance], "ok", <<>>))

\* GET payment-methods/{k}/
request_retrieve_method(p, token, k) ==
    /\ pc[p] = "idle"
    /\ LET user == get_user(token)
           c == RequestCall("retrieve_method", token, 0)
       IN IF ~IsAuthenticated(user)
          THEN Return(p, [Outcome(p, c, "NotAuthenticated", <<>>) EXCEPT !.method = k])
          ELSE IF k \notin get_queryset_methods(user)
          THEN Return(p, [Outcome(p, c, "Http404", <<>>) EXCEPT !.method = k])
          ELSE Return(p, [Outcome(p, [c EXCEPT !.wallet = methods[k].wallet], "ok", <<>>)
                              EXCEPT !.method = k])

\* POST wallets/{w}/process_transaction/ of a caller: authentication,
\* get_object over get_queryset, serializer.is_valid, then the service
request_process_transaction(p, token, w, a, t) ==
    /\ pc[p] = "idle"
    /\ Room(1)
    /\ LET user == get_user(token)
           c == RequestCall("process_transaction", token, w)
       IN IF ~IsAuthenticated(user)
          THEN Rollback(p, Outcome(p, c, "NotAuthenticated", <<>>))
          ELSE IF w \notin get_queryset(user)
          THEN Rollback(p, Outcome(p, c, "Http404", <<>>))
          ELSE IF ~validate_amount(a, t)
          THEN Rollback(p, Outcome(p, c, "ValidationError", <<>>))
          ELSE LockAndGet(p, [Frame("process_transaction", "http", w, a, t, 0, 0, 0, NoTxn)
                                  EXCEPT !.merchant = token.user_id])

\* ------------------------------------- MerchantPaymentMethodSerializer
\* the characters of the modelled numbers (none of them is the mask character)
Chars == {"1", "2"}

RECURSIVE StringsOf(_)
\* the strings of length n
StringsOf(n) ==
    IF n = 0 THEN {<< >>}
    ELSE {Append(x, c) : x \in StringsOf(n - 1), c \in Chars}

Strings == UNION {StringsOf(n) : n \in 0 .. MaxLen}

\* '*' * n: the empty string when n is not positive
Stars(n) == [i \in 1 .. n |-> "*"]

\* s[-4:] of a string of at least four characters
Last4(s) == SubSeq(s, Len(s) - 3, Len(s))

\* lines 56-58 and 61-63: '*' * (len - 4) + value[-4:] when len > 4
mask_number(s) == IF Len(s) > 4 THEN Stars(Len(s) - 4) \o Last4(s) ELSE s

\* lines 66-68: phone[:2] + '*' * (len - 6) + phone[-4:] when len > 4
mask_phone(s) ==
    IF Len(s) > 4 THEN SubSeq(s, 1, 2) \o Stars(Len(s) - 6) \o Last4(s) ELSE s

SensitiveKeys == {"account_number", "card_number", "phone_number"}

\* the payment_details of the modelled objects: None, one key (a number or
\* another field), or an account number with a phone number
DetailInputs ==
    {None}
        \cup {k :> v : k \in SensitiveKeys \cup {"bank_name"}, v \in Strings}
        \cup {("account_number" :> v) @@ ("phone_number" :> v) : v \in Strings}

\* get_masked_payment_details: a copy of obj.payment_details ({} when there
\* are none) with the three numbers masked
masked_payment_details(payment_details) ==
    LET details == IF payment_details = None THEN << >> ELSE payment_details IN
    [k \in DOMAIN details |->
        IF k \in {"account_number", "card_number"} THEN mask_number(details[k])
        ELSE IF k = "phone_number" THEN mask_phone(details[k])
        ELSE details[k]]

\* the serializer builds the representation of the handler's object
get_masked_payment_details(p) ==
    /\ pc[p] = "serialize"
    /\ pc' = [pc EXCEPT ![p] = "idle"]
    /\ last' = ("data" :> masked_payment_details(pm[p].payment_details))
                   @@ [NoLast EXCEPT !.proc = p, !.op = "get_masked_payment_details",
                                     !.via = "http", !.outcome = "ok", !.method = pm[p].id]
    /\ UNCHANGED <<wallets, txns, lock, call, loc, pendT, pendW, writes, applied, methods,
                   pendM, pm, created>>

\* a handler is about to serialize a payment method of merchant m1's wallet
InitSerializer ==
    /\ wallets = (1 :> [merchant |-> "m1", balance |-> 0, status |-> "active"])
    /\ txns = EmptyBag
    /\ lock = [w \in WalletIds |-> NoProc]
    /\ \E q \in Procs, d \in DetailInputs :
          /\ pc = [p \in Procs |-> IF p = q THEN "serialize" ELSE "idle"]
          /\ pm = [p \in Procs |->
                     IF p = q
                     THEN ("payment_details" :> d)
                              @@ [id |-> 1, wallet |-> 1, status |-> "active", is_default |-> FALSE]
                     ELSE NoMethod]
    /\ call = [p \in Procs |-> NoCall]
    /\ loc = [p \in Procs |-> NoWallet]
    /\ pendT = [p \in Procs |-> EmptyBag]
    /\ pendW = [p \in Procs |-> << >>]
    /\ last = NoLast
    /\ writes = 0
    /\ applied = [w \in WalletIds |-> 0]
    /\ methods = <<[wallet |-> 1, status |-> "active", is_default |-> FALSE]>>
    /\ pendM = [p \in Procs |-> {}]
    /\ created = 1

NextSerializer == \E p \in Procs : get_masked_payment_details(p)

SpecSerializer == InitSerializer /\ [][NextSerializer]_vars

\* ------------------------------------------------- PaymentMethodService
\* the payment method rows a handler sees: the committed rows with its own
\* uncommitted updates
ViewM(p) ==
    [k \in DOMAIN methods |->
        IF k \in pendM[p] THEN [methods[k] EXCEPT !.is_default = FALSE] ELSE methods[k]]

\* MerchantPaymentMethod.objects.filter(wallet=w, is_default=True).exclude(pk=k)
\* over the rows M (k = 0 excludes nothing)
Defaults(M, w, k) == {x \in DOMAIN M : M[x].wallet = w /\ M[x].is_default /\ x # k}

MethodExists(k) == k \in DOMAIN methods /\ methods[k] # DeletedMethod

\* the handlers never clear another method's is_default
UnsetTargets_none(p, w, k) == {}

\* ...update(is_default=False): the rows the UPDATE statement of handler p changes
UnsetTargets(p, w, k) == Defaults(ViewM(p), w, k)

\* an UPDATE waits while another handler's uncommitted update holds one of its rows
RowsFree(p, S) == \A q \in Procs \ {p} : pendM[q] \cap S = {}

\* the bound on the number of payment method rows
MethodRoom ==
    Len(methods) + Cardinality({p \in Procs : pc[p] \in {"pm_update", "pm_write"} /\ pm[p].id = 0})
        < MaxMethods

\* the handler's atomic block ends: M are the rows it leaves committed
MethodDone(p, M, result) ==
    /\ methods' = M
    /\ pendM' = [pendM EXCEPT ![p] = {}]
    /\ pm' = [pm EXCEPT ![p] = NoMethod]
    /\ call' = [call EXCEPT ![p] = NoCall]
    /\ pc' = [pc EXCEPT ![p] = "idle"]
    /\ last' = result
    /\ UNCHANGED <<wallets, txns, lock, loc, pendT, pendW, writes, applied, created>>

\* the handler goes on to payment_method.save() holding the object obj, having
\* cleared is_default on the rows S
MethodGoOn(p, c, obj, S) ==
    /\ RowsFree(p, S)
    /\ pendM' = [pendM EXCEPT ![p] = S]
    /\ pm' = [pm EXCEPT ![p] = obj]
    /\ call' = [call EXCEPT ![p] = c]
    /\ pc' = [pc EXCEPT ![p] = "pm_update"]
    /\ last' = NoLast
    /\ UNCHANGED <<wallets, txns, lock, loc, pendT, pendW, writes, applied, created, methods>>

\* add_payment_method lines 216-232: get the wallet (DoesNotExist propagates),
\* clear the other defaults if is_default, build the new object; create() then
\* calls save()
add_payment_method_begin(p, w, d) ==
    /\ pc[p] = "idle"
    /\ MethodRoom
    /\ LET c == [NoCall EXCEPT !.op = "add_payment_method", !.via = "service", !.wallet = w] IN
       IF ~Exists(w)
       THEN MethodDone(p, methods, Outcome(p, c, "DoesNotExist", <<>>))
       ELSE MethodGoOn(p, c, [id |-> 0, wallet |-> w, status |-> "active", is_default |-> d],
                       IF d THEN UnsetTargets(p, w, 0) ELSE {})

\* set_default_payment_method lines 260-271: get the payment method, clear the
\* other defaults of its wallet, payment_method.is_default = True
set_default_payment_method_begin(p, k) ==
    /\ pc[p] = "idle"
    /\ LET c == [NoCall EXCEPT !.op = "set_default_payment_method", !.via = "service"] IN
       IF ~MethodExists(k)
       THEN MethodDone(p, methods, [Outcome(p, c, "DoesNotExist", <<>>) EXCEPT !.method = k])
       ELSE LET row == ViewM(p)[k] IN
            MethodGoOn(p, [c EXCEPT !.wallet = row.wallet],
                       [id |-> k, wallet |-> row.wallet, status |-> row.status, is_default |-> TRUE],
                       UnsetTargets(p, row.wallet, k))

\* deactivate_payment_method changes the status only
Deactivated_status_only(obj) == [obj EXCEPT !.status = "inactive"]

\* deactivate_payment_method lines 283-284: the two assignments to the object
Deactivated(obj) == [obj EXCEPT !.status = "inactive", !.is_default = FALSE]

\* deactivate_payment_method lines 279-285: get the payment method
\* (DoesNotExist propagates), assign the two fields; payment_method.save()
\* follows, outside any atomic block
deactivate_payment_method_begin(p, k) ==
    /\ pc[p] = "idle"
    /\ LET c == [NoCall EXCEPT !.op = "deactivate_payment_method", !.via = "service"] IN
       IF ~MethodExists(k)
       THEN MethodDone(p, methods, [Outcome(p, c, "DoesNotExist", <<>>) EXCEPT !.method = k])
       ELSE LET row == ViewM(p)[k] IN
            MethodGoOn(p, [c EXCEPT !.wallet = row.wallet],
                       Deactivated([id |-> k, wallet |-> row.wallet, status |-> row.status,
                                    is_default |-> row.is_default]),
                       {})

\* PATCH payment-methods/{k}/ with status and is_default: get_object (404 for
\* a row outside the queryset), the serializer assigns the writable fields;
\* serializer.save() then calls payment_method.save()
view_method_update_begin(p, k, s, d) ==
    /\ pc[p] = "idle"
    /\ LET c == [NoCall EXCEPT !.op = "update_method", !.via = "http"] IN
       IF ~MethodExists(k)
       THEN MethodDone(p, methods, [Outcome(p, c, "Http404", <<>>) EXCEPT !.method = k])
       ELSE LET row == ViewM(p)[k] IN
            MethodGoOn(p, [c EXCEPT !.wallet = row.wallet],
                       [id |-> k, wallet |-> row.wallet, status |-> s, is_default |-> d],
                       {})

\* get_default_payment_method: objects.get(wallet_id=w, is_default=True,
\* status='active'); DoesNotExist becomes None (method 0), and get() raises
\* MultipleObjectsReturned when more than one row matches
get_default_payment_method(p, w) ==
    /\ pc[p] = "idle"
    /\ LET c == [NoCall EXCEPT !.op = "get_default_payment_method", !.via = "service", !.wallet = w]
           S == {k \in Defaults(methods, w, 0) : methods[k].status = "active"}
       IN IF S = {}
          THEN Return(p, Outcome(p, c, "ok", <<>>))
          ELSE IF Cardinality(S) > 1
          THEN Return(p, Outcome(p, c, "MultipleObjectsReturned", <<>>))
          ELSE Return(p, [Outcome(p, c, "ok", <<>>) EXCEPT !.method = CHOOSE k \in S : TRUE])

\* MerchantPaymentMethod.save lines 183-187: a default clears the other
\* defaults of its wallet once more
MerchantPaymentMethod_save_update(p) ==
    /\ pc[p] = "pm_update"
    /\ LET S == IF pm[p].is_default THEN UnsetTargets(p, pm[p].wallet, pm[p].id) ELSE {} IN
       /\ RowsFree(p, S)
       /\ pendM' = [pendM EXCEPT ![p] = @ \cup S]
    /\ pc' = [pc EXCEPT ![p] = "pm_write"]
    /\ last' = NoLast
    /\ UNCHANGED <<wallets, txns, lock, call, loc, pendT, pendW, writes, applied, created, methods, pm>>

\* MerchantPaymentMethod.save line 188: super().save() inserts the object, or
\* writes every column of its row (the foreign key refuses a wallet that is
\* gone); the service returns and its block commits
MerchantPaymentMethod_save_write(p) ==
    /\ pc[p] = "pm_write"
    /\ LET obj == pm[p]
           k == IF obj.id = 0 THEN Len(methods) + 1 ELSE obj.id
           row == [wallet |-> obj.wallet, status |-> obj.status, is_default |-> obj.is_default]
       IN
       /\ obj.id # 0 => RowsFree(p, {k})
       /\ IF ~Exists(obj.wallet)
          THEN MethodDone(p, methods, [Outcome(p, call[p], "IntegrityError", <<>>) EXCEPT !.method = k])
          ELSE MethodDone(p, IF obj.id = 0 THEN Append(ViewM(p), row) ELSE [ViewM(p) EXCEPT ![k] = row],
                          [Outcome(p, call[p], "ok", <<>>) EXCEPT
                              !.method = k,
                              !.unset = pendM[p] \cup
                                  (IF obj.id # 0 /\ methods[k].is_default /\ ~obj.is_default
                                   THEN {k} ELSE {})])

MethodInputs == 1 .. MaxMethods

\* ----------------------------------------------------------------- Next
\* the operations of WalletService
NextLedger ==
    \E p \in Procs :
        \/ \E m \in Merchants : create_merchant_wallet(p, m)
        \/ get_or_create_create(p)
        \/ \E w \in WalletInputs, a \in Amounts, t \in InputTypes : process_transaction_begin(p, w, a, t)
        \/ process_transaction_body(p)
        \/ \E f \in WalletInputs, to \in WalletInputs, a \in Amounts : transfer_funds_begin(p, f, to, a)
        \/ transfer_funds_credit(p)
        \/ \E w \in WalletInputs : suspend_wallet_begin(p, w)
        \/ \E w \in WalletInputs : reactivate_wallet_begin(p, w)
        \/ status_change_body(p)

\* the handlers of the wallet HTTP API
NextHttp ==
    \E p \in Procs :
        \/ \E w \in WalletIds, a \in Amounts, t \in HttpTypes : view_process_transaction(p, w, a, t)
        \/ \E w \in WalletIds, fs \in FieldSets, b \in BalanceInputs, s \in STATUS_CHOICES :
               view_update_begin(p, w, fs, b, s)
        \/ view_update_save(p)
        \/ \E w \in WalletIds : view_destroy(p, w)

\* writes of wallet objects outside the service
NextSave ==
    \/ \E p \in Procs, w \in WalletInputs, b \in BalanceInputs, s \in STATUS_CHOICES : wallet_save(p, w, b, s)
    \/ \E p \in Procs, m \in Merchants, b \in BalanceInputs : MerchantWallet_create(p, m, b)

\* what a client of the HTTP API can make the server do
NextApi ==
    \/ \E p \in Procs, m \in Merchants : create_merchant_wallet(p, m)
    \/ \E p \in Procs : get_or_create_create(p)
    \/ \E p \in Procs : process_transaction_body(p)
    \/ NextHttp

\* the service and the saves of wallet objects
Next == NextLedger \/ NextSave

SpecLedger == Init /\ [][NextLedger]_vars

SpecApi == Init /\ [][NextApi]_vars

Spec == Init /\ [][Next]_vars

\* two merchants' wallets that hold money, as the set-up of the transfer tests
\* creates them (MerchantWallet.objects.create(merchant=..., balance=...))
InitFunded ==
    /\ wallets = (1 :> [merchant |-> "m1", balance |-> MaxAmount, status |-> "active"]
                  @@ 2 :> [merchant |-> "m2", balance |-> MaxAmount, status |-> "active"])
    /\ txns = EmptyBag
    /\ lock = [w \in WalletIds |-> NoProc]
    /\ pc = [p \in Procs |-> "idle"]
    /\ call = [p \in Procs |-> NoCall]
    /\ loc = [p \in Procs |-> NoWallet]
    /\ pendT = [p \in Procs |-> EmptyBag]
    /\ pendW = [p \in Procs |-> << >>]
    /\ last = NoLast
    /\ writes = 0
    /\ applied = [w \in WalletIds |-> IF w \in {1, 2} THEN MaxAmount ELSE 0]
    /\ methods = << >>
    /\ pendM = [p \in Procs |-> {}]
    /\ pm = [p \in Procs |-> NoMethod]
    /\ created = 2

\* process_transaction and transfer_funds calls on the two funded wallets,
\* and the database's resolution of a lock cycle
NextTransfers ==
    \E p \in Procs :
        \/ \E w \in WalletInputs, a \in Amounts, t \in InputTypes : process_transaction_begin(p, w, a, t)
        \/ process_transaction_body(p)
        \/ \E f \in WalletInputs, to \in WalletInputs, a \in Amounts : transfer_funds_begin(p, f, to, a)
        \/ transfer_funds_credit(p)
        \/ DeadlockAbort(p)

SpecTransfers == InitFunded /\ [][NextTransfers]_vars

\* no other handler is inside a call
Alone(p) == \A q \in Procs \ {p} : pc[q] = "idle"

\* the lookups, interleaved with calls that create wallets, transactions and
\* payment methods (one such call at a time)
NextLookup ==
    \E p \in Procs :
        \/ Alone(p) /\ \E m \in Merchants : create_merchant_wallet(p, m)
        \/ get_or_create_create(p)
        \/ Alone(p) /\ \E w \in WalletInputs, a \in Amounts, t \in InputTypes :
               process_transaction_begin(p, w, a, t)
        \/ process_transaction_body(p)
        \/ \E w \in WalletInputs : get_wallet_balance(p, w)
        \/ \E m \in Merchants : get_merchant_wallet(p, m)
        \/ Alone(p) /\ \E w \in WalletInputs : add_payment_method_begin(p, w, TRUE)
        \/ MerchantPaymentMethod_save_update(p)
        \/ MerchantPaymentMethod_save_write(p)

SpecLookup == Init /\ [][NextLookup]_vars

\* the operations of PaymentMethodService on the wallets create_wallet made,
\* the calls executed one after another
NextMethodsSeq ==
    \E p \in Procs :
        \/ Alone(p) /\ \E m \in Merchants : create_merchant_wallet(p, m)
        \/ Alone(p) /\ get_or_create_create(p)
        \/ Alone(p) /\ \E w \in WalletInputs, d \in BOOLEAN : add_payment_method_begin(p, w, d)
        \/ Alone(p) /\ \E k \in MethodInputs : set_default_payment_method_begin(p, k)
        \/ Alone(p) /\ MerchantPaymentMethod_save_update(p)
        \/ Alone(p) /\ MerchantPaymentMethod_save_write(p)

SpecMethodsSeq == Init /\ [][NextMethodsSeq]_vars

METHOD_STATUS_CHOICES == {"active", "inactive", "expired", "blocked"}

\* the statuses the modelled clients write
StatusInputs == {"active", "expired"}

\* the payment method registry, service and HTTP, on the wallets create_wallet
\* made, the calls executed one after another
NextRegistry ==
    \E p \in Procs :
        \/ Alone(p) /\ \E m \in Merchants : create_merchant_wallet(p, m)
        \/ Alone(p) /\ get_or_create_create(p)
        \/ Alone(p) /\ \E w \in WalletInputs, d \in BOOLEAN : add_payment_method_begin(p, w, d)
        \/ Alone(p) /\ \E k \in MethodInputs : set_default_payment_method_begin(p, k)
        \/ Alone(p) /\ \E k \in MethodInputs : deactivate_payment_method_begin(p, k)
        \/ Alone(p) /\ \E k \in MethodInputs, s \in StatusInputs, d \in BOOLEAN :
               view_method_update_begin(p, k, s, d)
        \/ Alone(p) /\ \E w \in WalletInputs : get_default_payment_method(p, w)
        \/ Alone(p) /\ MerchantPaymentMethod_save_update(p)
        \/ Alone(p) /\ MerchantPaymentMethod_save_write(p)

SpecRegistry == Init /\ [][NextRegistry]_vars

\* two merchants' wallets, only the first of which holds money
InitOneFunded ==
    /\ wallets = (1 :> [merchant |-> "m1", balance |-> MaxAmount, status |-> "active"]
                  @@ 2 :> [merchant |-> "m2", balance |-> 0, status |-> "active"])
    /\ txns = EmptyBag
    /\ lock = [w \in WalletIds |-> NoProc]
    /\ pc = [p \in Procs |-> "idle"]
    /\ call = [p \in Procs |-> NoCall]
    /\ loc = [p \in Procs |-> NoWallet]
    /\ pendT = [p \in Procs |-> EmptyBag]
    /\ pendW = [p \in Procs |-> << >>]
    /\ last = NoLast
    /\ writes = 0
    /\ applied = [w \in WalletIds |-> IF w = 1 THEN MaxAmount ELSE 0]
    /\ methods = << >>
    /\ pendM = [p \in Procs |-> {}]
    /\ pm = [p \in Procs |-> NoMethod]
    /\ created = 2

\* transfer_funds calls and nothing else, between the two wallets and to a
\* wallet that does not exist
NextTransferOnly ==
    \E p \in Procs :
        \/ \E f \in WalletInputs, to \in WalletIds, a \in Amounts : transfer_funds_begin(p, f, to, a)
        \/ process_transaction_body(p)
        \/ transfer_funds_credit(p)
        \/ DeadlockAbort(p)

SpecTransferOnly == (InitFunded \/ InitOneFunded) /\ [][NextTransferOnly]_vars

\* the values of transaction_type in the modelled requests: every choice, and
\* a string that is not a choice
RequestTypes == TRANSACTION_TYPE_CHOICES \cup {"bonus"}

\* requests to the process_transaction endpoint on two funded wallets
NextEndpoint ==
    \E p \in Procs :
        \/ \E w \in WalletInputs, a \in Amounts, t \in RequestTypes : view_process_transaction(p, w, a, t)
        \/ process_transaction_body(p)

SpecEndpoint == InitFunded /\ [][NextEndpoint]_vars

\* add_payment_method and set_default_payment_method calls of two handlers,
\* interleaved statement by statement
NextMethods ==
    \E p \in Procs :
        \/ Alone(p) /\ \E m \in Merchants : create_merchant_wallet(p, m)
        \/ Alone(p) /\ get_or_create_create(p)
        \/ \E w \in WalletInputs, d \in BOOLEAN : add_payment_method_begin(p, w, d)
        \/ \E k \in MethodInputs : set_default_payment_method_begin(p, k)
        \/ MerchantPaymentMethod_save_update(p)
        \/ MerchantPaymentMethod_save_write(p)

SpecMethods == Init /\ [][NextMethods]_vars

\* two wallets whose status was set to closed (status is one of
\* STATUS_CHOICES; no service call sets it, an administrator's write does)
InitClosed ==
    /\ wallets = (1 :> [merchant |-> "m1", balance |-> 0, status |-> "closed"]
                  @@ 2 :> [merchant |-> "m2", balance |-> 0, status |-> "closed"])
    /\ txns = EmptyBag
    /\ lock = [w \in WalletIds |-> NoProc]
    /\ pc = [p \in Procs |-> "idle"]
    /\ call = [p \in Procs |-> NoCall]
    /\ loc = [p \in Procs |-> NoWallet]
    /\ pendT = [p \in Procs |-> EmptyBag]
    /\ pendW = [p \in Procs |-> << >>]
    /\ last = NoLast
    /\ writes = 0
    /\ applied = [w \in WalletIds |-> 0]
    /\ methods = << >>
    /\ pendM = [p \in Procs |-> {}]
    /\ pm = [p \in Procs |-> NoMethod]
    /\ created = 2

\* suspend_wallet and reactivate_wallet calls only
NextStatus ==
    \E p \in Procs :
        \/ \E w \in WalletInputs : suspend_wallet_begin(p, w)
        \/ \E w \in WalletInputs : reactivate_wallet_begin(p, w)
        \/ status_change_body(p)

SpecClosed == InitClosed /\ [][NextStatus]_vars

\* the requests of merchants and of an admin on the wallets and payment
\* methods that exist, one request at a time
NextTenant ==
    \E p \in Procs :
        \/ Alone(p) /\ \E m \in Merchants : create_merchant_wallet(p, m)
        \/ Alone(p) /\ get_or_create_create(p)
        \/ Alone(p) /\ \E w \in WalletInputs : add_payment_method_begin(p, w, FALSE)
        \/ Alone(p) /\ MerchantPaymentMethod_save_update(p)
        \/ Alone(p) /\ MerchantPaymentMethod_save_write(p)
        \/ Alone(p) /\ \E token \in Tokens, w \in WalletInputs : request_retrieve(p, token, w)
        \/ Alone(p) /\ \E token \in Tokens, k \in MethodInputs : request_retrieve_method(p, token, k)
        \/ Alone(p) /\ \E token \in Tokens, w \in WalletInputs, a \in Amounts, t \in InputTypes :
               request_process_transaction(p, token, w, a, t)
        \/ Alone(p) /\ process_transaction_body(p)

SpecTenant == Init /\ [][NextTenant]_vars

\* ------------------------------------------------------------ properties
\* sum(t.amount for t in wallet.transactions if t.transaction_status == 'completed')
CompletedSumIn(B, w) == SumAmounts(B, {r \in RowsOf(B, w) : r.status = "completed"})

\* handler p leaves the body of process_transaction / suspend / reactivate
BodyStep(p) == pc[p] = "check" /\ pc'[p] # "check"

PtRow(w, a, t, d) == [wallet |-> w, amount |-> a, type |-> t, status |-> "completed", desc |-> d]

\* C1: under the service's operations (create_wallet, process_transaction,
\* transfer_funds, suspend_wallet, reactivate_wallet; successful or failed) the
\* balance of every wallet equals the sum of the amounts of its completed
\* transactions.
C1_BalanceIsCompletedSum ==
    \A w \in DOMAIN wallets : wallets[w].balance = CompletedSumIn(txns, w)

\* a suspended wallet that holds money, right after a call against it failed
C1_Witness ==
    /\ last.op = "process_transaction"
    /\ last.outcome = "InvalidState"
    /\ last.wallet \in DOMAIN wallets
    /\ wallets[last.wallet].balance > 0
    /\ Copies(txns, RowsOf(txns, last.wallet)) >= 2

\* C2: no persisted (or saved but uncommitted) wallet balance is ever negative
\* under the service's operations and saves of wallet objects, and a save of a
\* wallet object with a negative balance fails and changes no row.
C2_NonNegative ==
    /\ [](/\ \A w \in DOMAIN wallets : wallets[w].balance >= 0
          /\ \A p \in Procs : \A w \in DOMAIN pendW[p] : pendW[p][w].balance >= 0)
    /\ [][(last'.op = "save" /\ last'.amount < 0) =>
              (last'.outcome = "ValueError" /\ wallets' = wallets /\ txns' = txns)]_vars

\* a save with a negative balance was refused while the wallet holds money
C2_Witness ==
    /\ last.op = "save"
    /\ last.amount < 0
    /\ last.outcome = "ValueError"
    /\ wallets[last.wallet].balance > 0

\* C3: a process_transaction call that reads an active wallet is rejected with
\* InsufficientFunds exactly when balance + amount < 0, and a rejected call
\* changes no wallet row and no transaction row.
C3_InsufficientFundsIff ==
    [][\A p \in Procs :
          (BodyStep(p) /\ IsPt(call[p]) /\ wallets[call[p].wallet].status = "active") =>
              LET c == call[p]
                  rejected == last'.outcome = "InsufficientFunds"
              IN /\ rejected <=> (wallets[c.wallet].balance + c.amount < 0)
                 /\ rejected => (wallets' = wallets /\ txns' = txns)]_vars

\* a debit that brings the balance to exactly 0 was accepted
C3_Witness ==
    /\ last.op = "process_transaction"
    /\ last.outcome = "ok"
    /\ last.amount < 0
    /\ wallets[last.wallet].balance = 0

\* C4: a successful process_transaction(wallet, amount, type) adds exactly one
\* row (that wallet, amount, type, completed) to the log and sets the balance to
\* the old balance + amount, nothing else changes; and in every step the
\* completed amounts added to a wallet's log equal the change of its balance
\* (the row and the balance are persisted together or not at all).
C4_ProcessTransactionEffect ==
    [][/\ \A p \in Procs :
             (BodyStep(p) /\ call[p].op = "process_transaction" /\ last'.outcome = "ok") =>
                 LET c == call[p]
                     row == PtRow(c.wallet, c.amount, c.type, "")
                 IN /\ txns' = txns (+) SetToBag({row})
                    /\ wallets' = [wallets EXCEPT ![c.wallet].balance = @ + c.amount]
                    /\ last'.txns = <<row>>
       /\ \A w \in DOMAIN wallets :
             wallets'[w].balance - wallets[w].balance
                 = CompletedSumIn(txns', w) - CompletedSumIn(txns, w)]_vars

\* a withdrawal succeeded
C4_Witness ==
    /\ last.op = "process_transaction"
    /\ last.outcome = "ok"
    /\ last.amount < 0
    /\ Len(last.txns) = 1
    /\ last.txns[1].type = "withdrawal"

\* C5: a successful transfer_funds(A, B, amount) adds exactly one transfer_out
\* row of -amount on A and one transfer_in row of +amount on B, lowers A's
\* balance by amount, raises B's by amount, and returns the debit row first.
C5_TransferEffect ==
    [][\A p \in Procs :
          (BodyStep(p) /\ call[p].op = "transfer_funds" /\ last'.outcome = "ok") =>
              LET c == call[p]
                  a == 0 - c.first.amount
                  out == PtRow(c.from, 0 - a, "transfer_out", "Transfer to wallet")
                  in == PtRow(c.to, a, "transfer_in", "Transfer from wallet")
              IN /\ a > 0
                 /\ c.from # c.to
                 /\ txns' = (txns (+) SetToBag({out})) (+) SetToBag({in})
                 /\ wallets' = [wallets EXCEPT ![c.from].balance = @ - a,
                                               ![c.to].balance = @ + a]
                 /\ last'.txns = <<out, in>>]_vars

\* a transfer succeeded
C5_Witness ==
    /\ last.op = "transfer_funds"
    /\ last.outcome = "ok"
    /\ Len(last.txns) = 2
    /\ wallets[last.to].balance > 0

\* C6: a transfer_funds call that fails leaves every wallet row and the whole
\* log as they were, also when the debit had already been applied.
C6_FailedTransferChangesNothing ==
    [][(last'.op = "transfer_funds" /\ last'.outcome # "ok") =>
           (wallets' = wallets /\ txns' = txns)]_vars

\* the credit failed on a suspended destination after the debit was applied
C6_Witness ==
    /\ last.op = "transfer_funds"
    /\ last.phase = 2
    /\ last.outcome = "InvalidState"
    /\ wallets[last.wallet].balance > 0

\* C7: a process_transaction call that reads a wallet whose status is not
\* active fails with InvalidState whatever the amount, and changes no wallet
\* row and no transaction row.
C7_InactiveRejected ==
    [][\A p \in Procs :
          (BodyStep(p) /\ IsPt(call[p]) /\ wallets[call[p].wallet].status # "active") =>
              (last'.outcome = "InvalidState" /\ wallets' = wallets /\ txns' = txns)]_vars

\* an overdrawing debit on a closed or frozen wallet was rejected as InvalidState
C7_Witness ==
    /\ last.op = "process_transaction"
    /\ last.outcome = "InvalidState"
    /\ wallets[last.wallet].status \in {"frozen", "closed"}
    /\ wallets[last.wallet].balance + last.amount < 0

\* C8: the calls on one wallet are serialized by the row lock: the balance is
\* always the initial balance (0) plus the amounts of the calls that succeeded,
\* and a handler that has read a wallet holds its lock and its copy is the
\* current row (no lost update).
C8_Serialized ==
    /\ \A w \in DOMAIN wallets : wallets[w].balance = applied[w]
    /\ \A p \in Procs :
          pc[p] = "check" =>
              /\ lock[call[p].wallet] = p
              /\ loc[p] = View(p, call[p].wallet)

\* a call waits for the row lock another handler holds, on a wallet with money
C8_Witness ==
    \E p \in Procs, q \in Procs :
        /\ p # q
        /\ pc[p] = "credit"
        /\ pc[q] = "check"
        /\ call[q].op = "process_transaction"
        /\ lock[call[p].wallet] = q
        /\ call[q].wallet = call[p].wallet

\* C9 (as claimed): every change of a persisted balance comes with a row that
\* process_transaction added to that wallet's log for the amount of the change.
C9_BalanceOnlyByProcessTransaction ==
    [][\A w \in (DOMAIN wallets) \cap (DOMAIN wallets') :
          wallets'[w].balance # wallets[w].balance =>
              \E r \in RowsOf(txns', w) :
                  /\ CopiesIn(r, txns') > CopiesIn(r, txns)
                  /\ r.amount = wallets'[w].balance - wallets[w].balance]_vars

\* C10: create_wallet for a merchant without a wallet adds one row (balance 0,
\* active); for a merchant with a wallet it returns that wallet's id and
\* changes no row; and no step of the service removes a wallet row or changes
\* its merchant, so every later call returns the same id.
C10_CreateWalletIdempotent ==
    [][/\ \A x \in DOMAIN wallets :
             x \in DOMAIN wallets' /\ wallets'[x].merchant = wallets[x].merchant
       /\ last'.op = "create_wallet" =>
          LET m == last'.merchant
              w == last'.wallet
              had == {x \in DOMAIN wallets : wallets[x].merchant = m}
          IN IF had # {}
             THEN had = {w} /\ wallets' = wallets /\ txns' = txns
             ELSE /\ w \notin DOMAIN wallets
                  /\ DOMAIN wallets' = (DOMAIN wallets) \cup {w}
                  /\ wallets'[w] = [merchant |-> m, balance |-> 0, status |-> "active"]
                  /\ \A x \in DOMAIN wallets : wallets'[x] = wallets[x]]_vars

\* a later call returned the existing wallet, which holds money and is suspended
C10_Witness ==
    /\ last.op = "create_wallet"
    /\ last.outcome = "ok"
    /\ wallets[last.wallet].balance > 0
    /\ wallets[last.wallet].status = "suspended"

\* C11: in every reachable state each merchant owns at most one wallet, under
\* every interleaving of create_wallet calls, the service's other operations
\* and direct writes of wallet objects; and creating a wallet row for a
\* merchant that has one fails (with IntegrityError when save() accepts the
\* balance) and adds no row.
C11_OneWalletPerMerchant ==
    /\ [](\A m \in Merchants : Cardinality(WalletOf(m)) <= 1)
    /\ [][(last'.op = "create" /\ WalletOf(last'.merchant) # {}) =>
              /\ last'.amount >= 0 => last'.outcome = "IntegrityError"
              /\ last'.outcome \in {"IntegrityError", "ValueError"}
              /\ wallets' = wallets
              /\ txns' = txns]_vars

\* a second wallet was refused while a create_wallet call for the same
\* merchant, which found no wallet earlier, is about to insert one
C11_Witness ==
    /\ last.op = "create"
    /\ last.outcome = "IntegrityError"
    /\ \E q \in Procs : pc[q] = "insert" /\ call[q].merchant = last.merchant

\* C12: when add_payment_method and set_default_payment_method calls are
\* executed one after another, every wallet has at most one payment method
\* with is_default = true in every state, and a call that adds or sets a
\* default leaves that method the only default of its wallet, having cleared
\* is_default on the previous one.
C12_SingleDefault ==
    /\ [](\A w \in WalletIds : Cardinality(Defaults(methods, w, 0)) <= 1)
    /\ [][\A p \in Procs :
             (pc[p] = "pm_write" /\ pc'[p] = "idle" /\ pm[p].is_default) =>
                 LET k == last'.method
                     w == pm[p].wallet
                 IN /\ last'.outcome = "ok"
                    /\ k \in DOMAIN methods'
                    /\ methods'[k].wallet = w
                    /\ methods'[k].is_default
                    /\ Defaults(methods', w, k) = {}
                    /\ Defaults(methods, w, k) \subseteq last'.unset]_vars

\* set_default moved the default of a wallet with three payment methods
C12_Witness ==
    /\ last.op = "set_default_payment_method"
    /\ last.outcome = "ok"
    /\ last.unset # {}
    /\ Len(methods) = MaxMethods
    /\ \A k \in DOMAIN methods : methods[k].wallet = last.wallet

\* C13: suspend_wallet on a suspended wallet fails with InvalidState and
\* changes no row; on a wallet of any other status (active, frozen, closed) it
\* adds exactly one completed adjustment row of amount 0 that records the
\* suspension, sets the status to suspended and leaves the balance and every
\* other wallet as they were, in one step.
C13_SuspendWallet ==
    [][\A p \in Procs :
          (BodyStep(p) /\ call[p].op = "suspend_wallet") =>
              LET w == call[p].wallet
                  row == PtRow(w, 0, "adjustment", "Wallet suspended")
              IN IF wallets[w].status = "suspended"
                 THEN last'.outcome = "InvalidState" /\ wallets' = wallets /\ txns' = txns
                 ELSE /\ last'.outcome = "ok"
                      /\ txns' = txns (+) SetToBag({row})
                      /\ wallets' = [wallets EXCEPT ![w].status = "suspended"]
                      /\ wallets'[w].balance = wallets[w].balance]_vars

\* a wallet that holds money was suspended
C13_Witness ==
    /\ last.op = "suspend_wallet"
    /\ last.outcome = "ok"
    /\ wallets[last.wallet].status = "suspended"
    /\ wallets[last.wallet].balance > 0

\* C14: reactivate_wallet succeeds exactly when the status is suspended or
\* frozen: it then adds exactly one completed adjustment row of amount 0, sets
\* the status to active and leaves the balance unchanged; on an active or
\* closed wallet it fails with InvalidState and changes no wallet row and no
\* transaction row.
C14_ReactivateWallet ==
    [][\A p \in Procs :
          (BodyStep(p) /\ call[p].op = "reactivate_wallet") =>
              LET w == call[p].wallet
                  row == PtRow(w, 0, "adjustment", "Wallet reactivated")
              IN IF wallets[w].status \in {"suspended", "frozen"}
                 THEN /\ last'.outcome = "ok"
                      /\ txns' = txns (+) SetToBag({row})
                      /\ wallets' = [wallets EXCEPT ![w].status = "active"]
                      /\ wallets'[w].balance = wallets[w].balance
                 ELSE last'.outcome = "InvalidState" /\ wallets' = wallets /\ txns' = txns]_vars

\* reactivating a closed wallet was refused
C14_Witness ==
    /\ last.op = "reactivate_wallet"
    /\ last.outcome = "InvalidState"
    /\ wallets[last.wallet].status = "closed"

\* C15: a transfer_funds call whose amount is <= 0 or whose two wallet ids are
\* equal fails with InvalidArgument in its first step, whatever the wallets'
\* existence, status and balance: no wallet row, transaction row, row lock or
\* wallet object changes, and no handler is ever inside a transfer with such
\* arguments.
C15_InvalidArgument ==
    /\ [][\A p \in Procs :
             (pc[p] = "idle" /\ last'.proc = p /\ last'.op = "transfer_funds") =>
                 LET bad == (0 - last'.amount) <= 0 \/ last'.wallet = last'.to IN
                 /\ bad <=> last'.outcome = "InvalidArgument"
                 /\ bad => (wallets' = wallets /\ txns' = txns /\ lock' = lock /\ loc' = loc)]_vars
    /\ [](\A p \in Procs :
             call[p].op = "transfer_funds" =>
                 /\ call[p].from # call[p].to
                 /\ call[p].phase = 1 => call[p].amount < 0
                 /\ call[p].phase = 2 => call[p].amount > 0)

\* a transfer of a positive amount from a suspended wallet to itself was refused
C15_Witness ==
    /\ last.op = "transfer_funds"
    /\ last.outcome = "InvalidArgument"
    /\ last.amount < 0
    /\ last.wallet = last.to
    /\ last.wallet \in DOMAIN wallets
    /\ wallets[last.wallet].status = "suspended"

\* C16 (as claimed): the transaction log is append-only: no step of the wallet
\* service or of the wallet HTTP API removes a row of the log or changes one
\* (every row of the log is in the log after the step, in as many copies).
C16_AppendOnly ==
    [][\A r \in BagToSet(txns) : CopiesIn(r, txns') >= CopiesIn(r, txns)]_vars

\* C17 (as claimed): no step of the wallet service or of the wallet HTTP API
\* removes a wallet row.
C17_WalletNeverDeleted ==
    [][\A w \in DOMAIN wallets : w \in DOMAIN wallets']_vars

\* C18: a handler inside transfer_funds holds the row lock of the source wallet
\* from the debit on, takes the destination's lock only for the credit, and
\* gives up no lock before its call ends; two transfers in opposite directions
\* can therefore each hold their source and wait for their destination (the
\* witness), and from such a state the code takes no step of its own: the
\* only step is the database's abort of one transfer, which fails without a
\* retry and changes no row.
C18_LockOrder ==
    /\ [](\A p \in Procs :
             call[p].op = "transfer_funds" =>
                 LET c == call[p] IN
                 /\ (pc[p] = "check" /\ c.phase = 1) => (lock[c.from] = p /\ lock[c.to] # p)
                 /\ pc[p] = "credit" => (lock[c.from] = p /\ lock[c.to] # p)
                 /\ (pc[p] = "check" /\ c.phase = 2) => (lock[c.from] = p /\ lock[c.to] = p))
    /\ [][\A p \in Procs, w \in WalletIds :
             (lock[w] = p /\ lock'[w] # p) => (pc'[p] = "idle" /\ last'.proc = p)]_vars
    /\ [][\A p \in Procs, q \in Procs :
             Deadlock(p, q) =>
                 /\ last'.proc \in {p, q}
                 /\ last'.op = "transfer_funds"
                 /\ last'.outcome = "DeadlockDetected"
                 /\ pc'[last'.proc] = "idle"
                 /\ call'[last'.proc] = NoCall
                 /\ wallets' = wallets
                 /\ txns' = txns]_vars

\* two transfers in opposite directions, each holding the lock of its source
\* and waiting for the lock of its destination
C18_Witness ==
    \E p \in Procs, q \in Procs :
        /\ Deadlock(p, q)
        /\ call[p].from = call[q].to
        /\ call[p].to = call[q].from

\* C19: a process_transaction or get_wallet_balance call whose wallet id names
\* no wallet, and a get_merchant_wallet call for a merchant that owns no
\* wallet, fail with NotFound (and only such calls do); the failing step
\* changes no wallet, transaction or payment method row, and no handler ever
\* gets past the lookup of a wallet that does not exist.
C19_NotFound ==
    /\ [][\A p \in Procs :
             (pc[p] = "idle" /\ last'.proc = p) =>
                 /\ last'.op \in {"process_transaction", "get_wallet_balance"} =>
                        (last'.outcome = "NotFound" <=> last'.wallet \notin DOMAIN wallets)
                 /\ last'.op = "get_merchant_wallet" =>
                        (last'.outcome = "NotFound" <=> WalletOf(last'.merchant) = {})
                 /\ last'.outcome = "NotFound" =>
                        (wallets' = wallets /\ txns' = txns /\ methods' = methods)]_vars
    /\ [](\A p \in Procs : pc[p] = "check" => call[p].wallet \in DOMAIN wallets)

\* a call on a wallet id that names no wallet failed while wallets,
\* transactions and payment methods exist
C19_Witness ==
    /\ last.op = "process_transaction"
    /\ last.outcome = "NotFound"
    /\ last.wallet \notin DOMAIN wallets
    /\ DOMAIN wallets # {}
    /\ txns # EmptyBag
    /\ Len(methods) > 0

\* C20 (as claimed): a row of amount zero enters the log only in a step that
\* ends a suspend_wallet or reactivate_wallet call; no process_transaction
\* call, through the service or the HTTP endpoint, adds one.
C20_ZeroOnlyAdministrative ==
    [][\A r \in BagToSet(txns') :
          (r.amount = 0 /\ CopiesIn(r, txns') > CopiesIn(r, txns)) =>
              last'.op \in {"suspend_wallet", "reactivate_wallet"}]_vars

\* C21: deactivate_payment_method on an existing payment method, whatever its
\* status and flags, leaves it with status inactive and is_default false and
\* its wallet unchanged, changes no other payment method, and if it was its
\* wallet's default the wallet has no default afterwards.
C21_Deactivate ==
    [][\A p \in Procs :
          (pc[p] = "pm_write" /\ pc'[p] = "idle" /\ call[p].op = "deactivate_payment_method") =>
              LET k == pm[p].id
                  w == methods[k].wallet
              IN /\ last'.outcome = "ok"
                 /\ DOMAIN methods' = DOMAIN methods
                 /\ methods'[k] = [wallet |-> w, status |-> "inactive", is_default |-> FALSE]
                 /\ \A j \in DOMAIN methods \ {k} : methods'[j] = methods[j]
                 /\ methods[k].is_default => Defaults(methods', w, 0) = {}]_vars

\* the default of a wallet with three payment methods, one of them expired,
\* was deactivated
C21_Witness ==
    /\ last.op = "deactivate_payment_method"
    /\ last.outcome = "ok"
    /\ last.unset = {last.method}
    /\ Len(methods) = MaxMethods
    /\ \A k \in DOMAIN methods : methods[k].wallet = last.wallet
    /\ \E k \in DOMAIN methods : methods[k].status = "expired"

\* C22: a request authenticated as a merchant is answered from, and changes,
\* only that merchant's wallet and payment methods (any other row is not
\* found), while a request authenticated as an admin finds every row.
C22_TenantIsolation ==
    (last.via = "http" /\ last.op \in {"retrieve", "retrieve_method", "process_transaction"}) =>
        /\ (last.merchant \in Merchants /\ last.outcome = "ok") =>
               /\ last.wallet \in DOMAIN wallets
               /\ wallets[last.wallet].merchant = last.merchant
        /\ (last.merchant \in Admins /\ last.outcome = "Http404") =>
               IF last.op = "retrieve_method"
               THEN last.method \notin DOMAIN methods
               ELSE last.wallet \notin DOMAIN wallets

\* the call c works on wallet w
Touches(c, w) == c.wallet = w \/ c.from = w \/ c.to = w

SingleWalletOps == {"process_transaction", "suspend_wallet", "reactivate_wallet"}

\* this step is a step of handler q's process_transaction, suspend_wallet or
\* reactivate_wallet call on wallet w: taking the lock, the body, or a failure
ActsOn(q, w) ==
    \/ pc[q] = "check" /\ pc'[q] = "idle" /\ call[q].op \in SingleWalletOps /\ call[q].wallet = w
    \/ pc[q] = "idle" /\ pc'[q] = "check" /\ call'[q].op \in SingleWalletOps /\ call'[q].wallet = w
    \/ /\ pc[q] = "idle" /\ pc'[q] = "idle"
       /\ last'.proc = q /\ last'.op \in SingleWalletOps /\ last'.wallet = w

\* C23: a process_transaction, suspend_wallet or reactivate_wallet call on
\* wallet A can always take A's lock when no other handler is in a call that
\* works on A, and a step of such a call on a wallet other than A changes
\* nothing of A (its row, its lock, its log) and nothing that another handler
\* holds (its position, its call, the row it read, its pending writes), so the
\* result of a call on A and A's final state are the same whatever the calls
\* on other wallets do.
C23_Independent ==
    /\ [](\A p \in Procs, A \in WalletIds :
            (\A q \in Procs \ {p} : pc[q] = "idle" \/ ~Touches(call[q], A)) => CanLock(p, A))
    /\ [][\A q \in Procs, B \in WalletIds : \A A \in WalletIds \ {B} :
             ActsOn(q, B) =>
                 /\ (A \in DOMAIN wallets) = (A \in DOMAIN wallets')
                 /\ A \in DOMAIN wallets => wallets'[A] = wallets[A]
                 /\ lock'[A] = lock[A]
                 /\ \A r \in BagToSet(txns) \cup BagToSet(txns') :
                        r.wallet = A => CopiesIn(r, txns') = CopiesIn(r, txns)
                 /\ \A p \in Procs \ {q} :
                        /\ pc'[p] = pc[p] /\ call'[p] = call[p] /\ loc'[p] = loc[p]
                        /\ pendT'[p] = pendT[p] /\ pendW'[p] = pendW[p]]_vars

\* a call on one wallet committed while another handler holds the lock of the
\* other wallet
C23_Witness ==
    /\ last.op \in SingleWalletOps
    /\ last.outcome = "ok"
    /\ \E q \in Procs \ {last.proc} :
          /\ pc[q] = "check"
          /\ call[q].op \in SingleWalletOps
          /\ call[q].wallet # last.wallet
          /\ lock[call[q].wallet] = q

\* C24 (as claimed): from closed wallets, no sequence of suspend_wallet and
\* reactivate_wallet calls makes the status of a wallet active.
C24_ClosedIsTerminal == \A w \in DOMAIN wallets : wallets[w].status # "active"

\* C25: under any interleaving of the service's calls, a step that commits a
\* row created by process_transaction (alone or inside transfer_funds) for a
\* wallet finds and leaves that wallet's committed status active: no such row
\* is committed between the commit of a suspend_wallet and the commit of the
\* next reactivate_wallet, and a call that reads the wallet after the
\* suspension is rejected and adds nothing.
C25_NoRowWhileSuspended ==
    /\ [][\A r \in BagToSet(txns') :
             (CopiesIn(r, txns') > CopiesIn(r, txns)
                 /\ r.desc \notin {AdminDesc("suspend_wallet"), AdminDesc("reactivate_wallet")}) =>
                 /\ wallets[r.wallet].status = "active"
                 /\ wallets'[r.wallet].status = "active"]_vars
    /\ [][\A p \in Procs :
             (BodyStep(p) /\ IsPt(call[p]) /\ wallets[call[p].wallet].status = "suspended") =>
                 /\ last'.outcome = "InvalidState"
                 /\ txns' = txns
                 /\ wallets' = wallets]_vars

\* a process_transaction call on a wallet that has a deposit was rejected
\* after a suspension of that wallet committed
C25_Witness ==
    /\ last.op = "process_transaction"
    /\ last.outcome = "InvalidState"
    /\ wallets[last.wallet].status = "suspended"
    /\ \E r \in RowsOf(txns, last.wallet) : r.type = "deposit"

\* C26 (as claimed): for any interleaving of add_payment_method and
\* set_default_payment_method calls, once every call has committed each
\* wallet has at most one payment method with is_default = true.
C26_SingleDefaultConcurrent ==
    (\A p \in Procs : pc[p] = "idle") =>
        \A w \in WalletIds : Cardinality(Defaults(methods, w, 0)) <= 1

RECURSIVE TotalBalance(_, _)
\* the sum of the balances of the wallets S in the table W
TotalBalance(W, S) ==
    IF S = {} THEN 0
    ELSE LET w == CHOOSE x \in S : TRUE
         IN W[w].balance + TotalBalance(W, S \ {w})

\* C27: when only transfer_funds is called, in sequence or interleaved,
\* successfully or not, no step changes the sum of the balances of all
\* wallets (so it always equals its initial value), and no step adds or
\* removes a wallet.
C27_TransfersConserve ==
    [][/\ DOMAIN wallets' = DOMAIN wallets
       /\ TotalBalance(wallets', DOMAIN wallets') = TotalBalance(wallets, DOMAIN wallets)]_vars

\* a transfer emptied the source wallet and left all the money of the two
\* funded wallets in the destination
C27_Witness ==
    /\ last.op = "transfer_funds"
    /\ last.outcome = "ok"
    /\ wallets[last.wallet].balance = 0
    /\ wallets[last.to].balance = 2 * MaxAmount

\* C28 (as claimed): whenever a payment method of a wallet has is_default =
\* true, whatever its status, get_default_payment_method for that wallet
\* returns that method and does not fail; so it returns p after
\* set_default_payment_method(p).
C28_DefaultIsReturned ==
    last.op = "get_default_payment_method" =>
        \A k \in Defaults(methods, last.wallet, 0) :
            last.outcome = "ok" /\ last.method = k

\* the sign convention of WalletTransactionCreateSerializer
SignOk(a, t) ==
    /\ t \in {"deposit", "refund", "transfer_in", "commission"} => a > 0
    /\ t \in {"withdrawal", "penalty", "transfer_out"} => a < 0

\* C29: of the requests to the process_transaction endpoint, only those
\* whose amount has the sign of their type (positive for deposit, refund,
\* transfer_in, commission; negative for withdrawal, penalty, transfer_out)
\* reach the service and the log; a request rejected by the validation
\* changes no wallet, no row and no handler.
C29_SignConvention ==
    /\ [](/\ \A p \in Procs : pc[p] = "check" => SignOk(call[p].amount, call[p].type)
          /\ \A r \in BagToSet(txns) : SignOk(r.amount, r.type))
    /\ [][(last'.via = "http" /\ last'.outcome = "ValidationError") =>
             UNCHANGED <<wallets, txns, lock, pc, call, loc, pendT, pendW, applied>>]_vars

\* a request with the wrong sign was rejected on a wallet that has accepted a
\* penalty, while a commission was accepted on the other wallet
C29_Witness ==
    /\ last.via = "http"
    /\ last.outcome = "ValidationError"
    /\ \E r \in RowsOf(txns, last.wallet) : r.type = "penalty"
    /\ \E r \in BagToSet(txns) : r.type = "commission" /\ r.wallet # last.wallet

\* the positions of a masked number that may show a character of the number
Shown(k, n) == (n - 3) .. n \cup (IF k = "phone_number" THEN {1, 2} ELSE {})

\* C30 (as claimed): for an account_number, card_number or phone_number of
\* more than four characters the masked value has the length of the number,
\* contains '*' and shows characters only in the last four positions (and
\* the first two of a phone number); the object's payment_details are not
\* modified.
C30_Masking ==
    /\ [](last.op = "get_masked_payment_details" =>
             LET d == pm[last.proc].payment_details IN
             d # None =>
                 \A k \in SensitiveKeys \cap DOMAIN d :
                     Len(d[k]) > 4 =>
                         LET m == last.data[k] IN
                         /\ Len(m) = Len(d[k])
                         /\ \E i \in 1 .. Len(m) : m[i] = "*"
                         /\ \A i \in 1 .. Len(m) : i \notin Shown(k, Len(m)) => m[i] = "*")
    /\ [][pm' = pm /\ methods' = methods]_vars

====
